---- MODULE Spec2Model ----
(***************************************************************************)
(* A model of sage.services.queue: the token-bucket RateLimiter and the    *)
(* QueueService that drains a priority queue of QueueItems through an      *)
(* injected ingestion handler.                                             *)
(*                                                                         *)
(* Time is counted in ticks of backoff_base_seconds (0.5 s).  A token is   *)
(* TicksPerMinute units, so that a limiter of requests_per_minute = N      *)
(* gains N units per tick and all arithmetic stays in the integers.        *)
(* Optional[...] fields hold None (the empty tuple) or Some(x).            *)
(***************************************************************************)
EXTENDS Integers, Sequences, FiniteSets, TLC

\* ---------------------------------------------------------------- bounds
MaxAdds == 3
MaxReports == 2
MaxCalls == 4
MaxBurst == 2
MaxClock == 6

\* ------------------------------------------------------------- constants
None == <<>>
Some(x) == <<x>>

QUEUED == "queued"
PROCESSING == "processing"
COMPLETED == "completed"
FAILED == "failed"
QueueStatus == {QUEUED, PROCESSING, COMPLETED, FAILED}

VALIDATING == "validating"
DOWNLOADING == "downloading"
TRANSCRIBING == "transcribing"
SUMMARIZING == "summarizing"
STORING == "storing"
COMPLETE == "complete"
STAGE_FAILED == "failed"

Min(a, b) == IF a <= b THEN a ELSE b
Max(a, b) == IF a >= b THEN a ELSE b

\* ------------------------------------------------------------------ URLs
\* A target string is modelled by its host and path (the scheme is https).
Url(host, path) == [host |-> host, path |-> path]

Lower(h) == IF h = "YouTu.be" THEN "youtu.be" ELSE h

\* pydantic's HttpUrl validation of QueueItem.video_url followed by str():
\* the host is lower-cased and an empty path becomes "/".
HttpUrl(u) == [host |-> Lower(u.host), path |-> IF u.path = "" THEN "/" ELSE u.path]

\* The preferences of an add_to_queue call: the defaults, and every one changed.
DefaultPrefs ==
    [manual_tags |-> <<>>, summarize |-> TRUE, summary_length |-> 300,
     remove_timestamps |-> FALSE, force |-> FALSE]

OtherPrefs ==
    [manual_tags |-> <<"talk">>, summarize |-> FALSE, summary_length |-> 100,
     remove_timestamps |-> TRUE, force |-> TRUE]

\* The add_to_queue calls of the model: a target that is its own validated
\* form, with either priority and either preferences, and a target that
\* validation rewrites.
Requests ==
    { [url |-> Url("youtu.be", "/a"), priority |-> 1, prefs |-> DefaultPrefs],
      [url |-> Url("youtu.be", "/a"), priority |-> 5, prefs |-> OtherPrefs],
      [url |-> Url("YouTu.be", ""), priority |-> 5, prefs |-> DefaultPrefs] }

\* ProgressUpdate payloads a handler may report.
ProgressUpdates ==
    { [stage |-> DOWNLOADING, stage_progress |-> 10, overall_progress |-> 10,
       message |-> "Fetching video metadata"],
      [stage |-> SUMMARIZING, stage_progress |-> 100, overall_progress |-> 80,
       message |-> "Summarization skipped"] }

\* Exceptions (instances of subclasses of Exception) a handler may raise.
Exceptions == { [class |-> "ValueError", text |-> "bad video"] }

\* ----------------------------------------------------------- RateLimiter
BackoffBaseTicks == 1
MaxBackoffTicks == 10
TicksPerMinute == 120
\* The least attempt at which backoff_base_seconds * 2**attempt has reached
\* max_backoff_seconds; the sleep is the same for every later attempt.
BackoffSaturation == 4

Services == {"youtube_api", "openai_api"}

\* Settings.rate_limits.services: service name -> ServiceRateLimit or None
\* (the service is not configured).
RateLimitConfig ==
    [s \in Services |->
        IF s = "youtube_api" THEN Some([requests_per_minute |-> Some(60), burst |-> Some(1)])
        ELSE None]

\* No rate_limits.yaml: no service is configured.
EmptyRateLimitConfig == [s \in Services |-> None]

RateLimitConfigs == {RateLimitConfig, EmptyRateLimitConfig}

\* A limiter that starts with an empty bucket.
RateLimiter_EmptyBucket(requests_per_minute, burst, t) ==
    [requests_per_minute |-> requests_per_minute, burst |-> burst,
     tokens |-> 0, last_refill |-> t]

\* __post_init__, lines 34-37
RateLimiter(requests_per_minute, burst, t) ==
    [requests_per_minute |-> requests_per_minute, burst |-> burst,
     tokens |-> burst * TicksPerMinute, last_refill |-> t]

\* _refill_rate in units per tick.
RefillRate(l) == l.requests_per_minute

\* A refill that forgets to move the time of the last refill.
Refill_KeepsLastRefill(l, t) ==
    LET elapsed == t - l.last_refill IN
    IF elapsed <= 0 \/ RefillRate(l) = 0 THEN l
    ELSE [l EXCEPT !.tokens = Min(l.burst * TicksPerMinute, l.tokens + elapsed * RefillRate(l))]

\* _refill, lines 57-66
Refill(l, t) ==
    LET elapsed == t - l.last_refill IN
    IF elapsed <= 0 \/ RefillRate(l) = 0 THEN l
    ELSE [l EXCEPT !.tokens = Min(l.burst * TicksPerMinute, l.tokens + elapsed * RefillRate(l)),
                   !.last_refill = t]

\* An admission that leaves the token in the bucket.
TryAcquire_NoDeduct(l, t) ==
    LET r == Refill(l, t) IN
    [limiter |-> r, admitted |-> r.tokens >= TicksPerMinute]

\* One pass of acquire's loop at time t: refill, then take a token if there is one.
TryAcquire(l, t) ==
    LET r == Refill(l, t) IN
    IF r.tokens >= TicksPerMinute
    THEN [limiter |-> [r EXCEPT !.tokens = r.tokens - TicksPerMinute], admitted |-> TRUE]
    ELSE [limiter |-> r, admitted |-> FALSE]

CeilDiv(a, b) == (a + b - 1) \div b

\* 2**attempt, as far as min(max_backoff_seconds, ...) can tell.
Pow2(n) == IF n >= BackoffSaturation THEN 16 ELSE IF n = 3 THEN 8 ELSE IF n = 2 THEN 4 ELSE IF n = 1 THEN 2 ELSE 1

\* The sleep of one failed admission attempt, rounded up to whole ticks.
SleepTicks(l, attempt) ==
    LET wait_time == IF RefillRate(l) # 0
                     THEN CeilDiv(TicksPerMinute - l.tokens, RefillRate(l))
                     ELSE BackoffBaseTicks
        backoff == Min(MaxBackoffTicks, BackoffBaseTicks * Pow2(attempt))
    IN Max(wait_time, backoff)

CreateLimiter(config) ==
    LET requests_per_minute == IF config.requests_per_minute = None THEN 60
                               ELSE config.requests_per_minute[1]
        burst == IF config.burst = None THEN requests_per_minute ELSE config.burst[1]
    IN RateLimiter(requests_per_minute, burst, 0)

load_rate_limits(configuration) ==
    [s \in Services |->
        IF configuration[s] = None THEN None ELSE Some(CreateLimiter(configuration[s][1]))]

\* ------------------------------------------------------------- QueueItem
\* An item built with the default preferences whatever was supplied.
QueueItem_DefaultPrefs(url, priority, prefs, t) ==
    [video_url |-> HttpUrl(url), status |-> QUEUED, priority |-> priority,
     manual_tags |-> << >>, summarize |-> TRUE, summary_length |-> 300,
     remove_timestamps |-> FALSE, force |-> FALSE,
     current_stage |-> None, stage_progress_percent |-> 0,
     overall_progress_percent |-> 0, retry_count |-> 0, max_retries |-> 3,
     error_message |-> None, error_type |-> None, message |-> None,
     queued_at |-> t, started_at |-> None, completed_at |-> None]

QueueItem(url, priority, prefs, t) ==
    [video_url |-> HttpUrl(url), status |-> QUEUED, priority |-> priority,
     manual_tags |-> prefs.manual_tags, summarize |-> prefs.summarize,
     summary_length |-> prefs.summary_length,
     remove_timestamps |-> prefs.remove_timestamps, force |-> prefs.force,
     current_stage |-> None, stage_progress_percent |-> 0,
     overall_progress_percent |-> 0, retry_count |-> 0, max_retries |-> 3,
     error_message |-> None, error_type |-> None, message |-> None,
     queued_at |-> t, started_at |-> None, completed_at |-> None]

\* A PROCESSING copy that does not record when it was made.
InProgressCopy_NoStart(item, t) ==
    [item EXCEPT !.status = PROCESSING,
                 !.current_stage = Some(VALIDATING), !.stage_progress_percent = 0]

\* _process_item, lines 185-192
InProgressCopy(item, t) ==
    [item EXCEPT !.status = PROCESSING, !.started_at = Some(t),
                 !.current_stage = Some(VALIDATING), !.stage_progress_percent = 0]

\* A terminal copy that leaves the status alone.
CompletedCopy_KeepsStatus(ip, t) ==
    [ip EXCEPT !.completed_at = Some(t), !.current_stage = Some(COMPLETE),
               !.overall_progress_percent = 100, !.stage_progress_percent = 100]

\* A COMPLETED copy that leaves the two percentages as they were.
CompletedCopy_KeepsProgress(ip, t) ==
    [ip EXCEPT !.status = COMPLETED, !.completed_at = Some(t),
               !.current_stage = Some(COMPLETE)]

\* _process_item, lines 206-214
CompletedCopy(ip, t) ==
    [ip EXCEPT !.status = COMPLETED, !.completed_at = Some(t),
               !.current_stage = Some(COMPLETE), !.overall_progress_percent = 100,
               !.stage_progress_percent = 100]

\* A failure that puts the item back in the QUEUED state.
FailedCopy_Requeues(ip, exc, t) ==
    [ip EXCEPT !.status = QUEUED, !.completed_at = Some(t),
               !.current_stage = Some(STAGE_FAILED),
               !.error_message = Some(exc.text), !.error_type = Some(exc.class)]

\* A failure that records the message under both error fields.
FailedCopy_TypeFromText(ip, exc, t) ==
    [ip EXCEPT !.status = FAILED, !.completed_at = Some(t),
               !.current_stage = Some(STAGE_FAILED),
               !.error_message = Some(exc.text), !.error_type = Some(exc.text)]

\* A failure that records the error but leaves the status alone.
FailedCopy_KeepsStatus(ip, exc, t) ==
    [ip EXCEPT !.completed_at = Some(t), !.current_stage = Some(STAGE_FAILED),
               !.error_message = Some(exc.text), !.error_type = Some(exc.class)]

\* _process_item, lines 217-225
FailedCopy(ip, exc, t) ==
    [ip EXCEPT !.status = FAILED, !.completed_at = Some(t),
               !.current_stage = Some(STAGE_FAILED),
               !.error_message = Some(exc.text), !.error_type = Some(exc.class)]

\* A callback that stores the reported overall progress as it comes.
ProgressCopy_NoMax(current, update) ==
    [current EXCEPT !.current_stage = Some(update.stage),
                    !.stage_progress_percent = update.stage_progress,
                    !.overall_progress_percent = update.overall_progress,
                    !.message = Some(update.message)]

\* A callback that keeps the larger stage progress too.
ProgressCopy_StageMax(current, update) ==
    [current EXCEPT !.current_stage = Some(update.stage),
                    !.stage_progress_percent =
                        Max(current.stage_progress_percent, update.stage_progress),
                    !.overall_progress_percent =
                        Max(current.overall_progress_percent, update.overall_progress),
                    !.message = Some(update.message)]

\* A callback that also marks the entry as PROCESSING.
ProgressCopy_SetsStatus(current, update) ==
    [current EXCEPT !.status = PROCESSING,
                    !.current_stage = Some(update.stage),
                    !.stage_progress_percent = update.stage_progress,
                    !.overall_progress_percent =
                        Max(current.overall_progress_percent, update.overall_progress),
                    !.message = Some(update.message)]

\* _progress_callback_for.handler, lines 236-243
ProgressCopy(current, update) ==
    [current EXCEPT !.current_stage = Some(update.stage),
                    !.stage_progress_percent = update.stage_progress,
                    !.overall_progress_percent =
                        Max(current.overall_progress_percent, update.overall_progress),
                    !.message = Some(update.message)]

\* An except clause that is too narrow for the handler's exceptions.
CaughtByExcept_Narrow(exc) == exc.class \in {"RuntimeError"}

\* `except Exception as exc`: the classes that derive from Exception.
CaughtByExcept(exc) == exc.class \in {"ValueError", "RuntimeError", "Exception"}

\* Both services for every item.
ServicesToThrottle_Both(ip) == <<"youtube_api", "openai_api">>

\* _process_item, lines 196-198
ServicesToThrottle(ip) ==
    IF ip.summarize THEN <<"youtube_api", "openai_api">> ELSE <<"youtube_api">>

\* A plain FIFO queue: the entry with the least sequence number.
Least_Fifo(q) ==
    CHOOSE e \in q : \A f \in q : e[2] <= f[2]

\* A stack: the entry enqueued last.
Least_Newest(q) ==
    CHOOSE e \in q : \A f \in q : e[2] >= f[2]

\* asyncio.PriorityQueue.get: the least (-priority, sequence, item) tuple.
Least(q) ==
    CHOOSE e \in q : \A f \in q : e[1] < f[1] \/ (e[1] = f[1] /\ e[2] <= f[2])

\* dict assignment self._items[key] = value
Put(d, key, value) == (key :> value) @@ d

get_queue_status(d) ==
    LET count(st) == Cardinality({k \in DOMAIN d : d[k].status = st}) IN
    [queued |-> count(QUEUED), processing |-> count(PROCESSING),
     completed |-> count(COMPLETED), failed |-> count(FAILED),
     total |-> count(QUEUED) + count(PROCESSING) + count(COMPLETED) + count(FAILED)]

\* ------------------------------------------------------------------ state
VARIABLES
    items,              \* self._items: key -> QueueItem
    priority_queue,     \* self._priority_queue: set of <<-priority, sequence, item>>
    sequence,           \* self._sequence
    rate_limiters,      \* self._rate_limiters: service -> None | Some(RateLimiter)
    now,                \* the clock, in ticks
    pc,                 \* where process_queue is
    item,               \* process_queue's popped item (None outside an iteration)
    in_progress,        \* _process_item's in_progress copy
    service,            \* index into services_to_throttle
    attempt,            \* RateLimiter.acquire's attempt counter
    wake_at,            \* when the pending asyncio.sleep ends
    reports,            \* number of progress reports delivered so far
    enqueued,           \* history: target and priority of each add_to_queue call, in order
    handled,            \* history: one record per handler invocation, in order
    adds_at_start,      \* history: value of sequence when process_queue started
    admissions,         \* history: one record per token taken from a service's limiter
    last_write,         \* history: the last write of self._items, and whether self._lock was held
    limiter,            \* a RateLimiter used directly by several callers
    callers,            \* caller -> where its acquire() call is
    calls,              \* number of acquire() calls made on limiter
    admitted            \* history: one record per acquire() call that returned

vars == <<items, priority_queue, sequence, rate_limiters, now, pc, item, in_progress,
          service, attempt, wake_at, reports, enqueued, handled, adds_at_start,
          admissions, last_write, limiter, callers, calls, admitted>>

loop_vars == <<pc, item, in_progress, service, attempt, wake_at>>
hist_vars == <<enqueued, handled, adds_at_start, admissions, last_write>>
queue_vars == <<items, priority_queue, sequence, rate_limiters, pc, item, in_progress,
                service, attempt, wake_at, reports, enqueued, handled, adds_at_start,
                admissions, last_write>>
limiter_vars == <<limiter, callers, calls, admitted>>

InitQueueService ==
    /\ items = << >>
    /\ priority_queue = {}
    /\ sequence = 0
    /\ \E configuration \in RateLimitConfigs :
          rate_limiters = load_rate_limits(configuration)
    /\ now = 0
    /\ pc = "idle"
    /\ item = None
    /\ in_progress = None
    /\ service = 0
    /\ attempt = 0
    /\ wake_at = 0
    /\ reports = 0
    /\ enqueued = << >>
    /\ handled = << >>
    /\ adds_at_start = None
    /\ admissions = << >>
    /\ last_write = None

\* The service with the limiters of its own registry only.
Init ==
    /\ InitQueueService
    /\ limiter = None
    /\ callers = << >>
    /\ calls = 0
    /\ admitted = << >>

\* ---------------------------------------------------------------- actions
\* A write of self._items made inside `async with self._lock` (lines 117-120)
\* and one made with no lock statement around it (lines 193, 215, 227, 236).
LockedWrite(op) == Some([op |-> op, locked |-> TRUE])
UnlockedWrite(op) == Some([op |-> op, locked |-> FALSE])

\* add_to_queue runs to completion without yielding (the lock is never
\* contended and the queue is unbounded); it can run before process_queue
\* is called and whenever the loop is suspended.  The model follows the
\* service up to the return of process_queue.
add_to_queue(url, priority, prefs) ==
    /\ sequence < MaxAdds
    /\ pc \in {"idle", "get", "sleep", "handler"}
    /\ LET new == QueueItem(url, priority, prefs, now) IN
        /\ sequence' = sequence + 1
        /\ priority_queue' = priority_queue \cup {<<-priority, sequence + 1, new>>}
        /\ items' = Put(items, url, new)
    /\ enqueued' = Append(enqueued, [url |-> url, priority |-> priority])
    /\ last_write' = LockedWrite("add_to_queue")
    /\ UNCHANGED <<rate_limiters, now, loop_vars, reports, handled, adds_at_start,
                   admissions>>
    /\ UNCHANGED limiter_vars

\* process_queue is called.
StartProcessQueue ==
    /\ pc = "idle"
    /\ pc' = "get"
    /\ adds_at_start' = Some(sequence)
    /\ UNCHANGED <<items, priority_queue, sequence, rate_limiters, now, item, in_progress,
                   service, attempt, wake_at, reports, enqueued, handled, admissions,
                   last_write>>
    /\ UNCHANGED limiter_vars

\* wait_for(self._priority_queue.get(), timeout=0.05) returns an entry and
\* _process_item runs up to its first rate-limit acquisition.
GetItem ==
    /\ pc = "get"
    /\ priority_queue # {}
    /\ LET e == Least(priority_queue)
           ip == InProgressCopy(e[3], now)
       IN
        /\ priority_queue' = priority_queue \ {e}
        /\ item' = Some(e)
        /\ in_progress' = Some(ip)
        /\ items' = Put(items, ip.video_url, ip)
    /\ service' = 1
    /\ attempt' = 0
    /\ pc' = "limit"
    /\ last_write' = UnlockedWrite("processing")
    /\ UNCHANGED <<sequence, rate_limiters, now, wake_at, reports, enqueued, handled,
                   adds_at_start, admissions>>
    /\ UNCHANGED limiter_vars

\* A timeout that ends the loop whatever the queue holds.
GetTimeout_IgnoresQueue ==
    /\ pc = "get"
    /\ pc' = "done"
    /\ UNCHANGED <<items, priority_queue, sequence, rate_limiters, now, item, in_progress,
                   service, attempt, wake_at, reports, hist_vars>>
    /\ UNCHANGED limiter_vars

\* The get times out on an empty queue: process_queue returns.  (A timeout
\* on a queue that is not empty goes back to the same get.)
GetTimeout ==
    /\ pc = "get"
    /\ priority_queue = {}
    /\ pc' = "done"
    /\ UNCHANGED <<items, priority_queue, sequence, rate_limiters, now, item, in_progress,
                   service, attempt, wake_at, reports, hist_vars>>
    /\ UNCHANGED limiter_vars

\* The handler is invoked once every service has admitted the item.
AfterAdmission ==
    IF service < Len(ServicesToThrottle(in_progress[1]))
    THEN /\ service' = service + 1
         /\ pc' = "limit"
         /\ handled' = handled
    ELSE /\ service' = 0
         /\ pc' = "handler"
         /\ handled' = Append(handled, [sequence |-> item[1][2], priority |-> -item[1][1],
                                        at |-> now, outcome |-> "running", exc |-> None])

\* A lookup that builds a default limiter for a service without one.
Registered_Default(name) ==
    IF rate_limiters[name] = None
    THEN Some(RateLimiter_EmptyBucket(60, 1, now))
    ELSE rate_limiters[name]

\* self._rate_limiters.get(service_name), line 174
Registered(name) == rate_limiters[name]

\* apply_rate_limit(service) up to its return or its first sleep.
ApplyRateLimit ==
    /\ pc = "limit"
    /\ LET name == ServicesToThrottle(in_progress[1])[service]
           registered == Registered(name)
       IN
        IF registered = None \/ registered[1].requests_per_minute <= 0
        THEN /\ AfterAdmission
             /\ UNCHANGED <<rate_limiters, attempt, wake_at, admissions>>
        ELSE LET try == TryAcquire(registered[1], now) IN
             /\ rate_limiters' = [rate_limiters EXCEPT ![name] = Some(try.limiter)]
             /\ IF try.admitted
                THEN /\ attempt' = 0
                     /\ admissions' = Append(admissions, [service |-> name, at |-> now,
                                                          sequence |-> item[1][2]])
                     /\ AfterAdmission
                     /\ UNCHANGED wake_at
                ELSE /\ wake_at' = now + SleepTicks(try.limiter, attempt)
                     /\ admissions' = admissions
                     /\ attempt' = attempt + 1
                     /\ pc' = "sleep"
                     /\ UNCHANGED <<service, handled>>
    /\ UNCHANGED <<items, priority_queue, sequence, now, item, in_progress, reports,
                   enqueued, adds_at_start, last_write>>
    /\ UNCHANGED limiter_vars

\* asyncio.sleep returns once the clock has reached wake_at.
Wake ==
    /\ pc = "sleep"
    /\ now' = Max(now, wake_at)
    /\ pc' = "limit"
    /\ wake_at' = 0
    /\ UNCHANGED <<items, priority_queue, sequence, rate_limiters, item, in_progress,
                   service, attempt, reports, hist_vars>>
    /\ UNCHANGED limiter_vars

\* The handler calls its progress callback.
ProgressCallback(update) ==
    /\ pc = "handler"
    /\ reports < MaxReports
    /\ reports' = reports + 1
    /\ LET video_url == item[1][3].video_url IN
        IF video_url \in DOMAIN items
        THEN /\ items' = Put(items, video_url, ProgressCopy(items[video_url], update))
             /\ last_write' = UnlockedWrite("progress")
        ELSE /\ items' = items
             /\ last_write' = last_write
    /\ UNCHANGED <<priority_queue, sequence, rate_limiters, now, loop_vars, enqueued,
                   handled, adds_at_start, admissions>>
    /\ UNCHANGED limiter_vars

SetOutcome(h, o, exc) == [h EXCEPT ![Len(h)].outcome = o, ![Len(h)].exc = exc]

\* The handler returns.
HandlerReturns ==
    /\ pc = "handler"
    /\ items' = Put(items, item[1][3].video_url, CompletedCopy(in_progress[1], now))
    /\ handled' = SetOutcome(handled, "returned", None)
    /\ last_write' = UnlockedWrite("completed")
    /\ pc' = "get"
    /\ item' = None
    /\ in_progress' = None
    /\ UNCHANGED <<priority_queue, sequence, rate_limiters, now, service, attempt, wake_at,
                   reports, enqueued, adds_at_start, admissions>>
    /\ UNCHANGED limiter_vars

\* A failure that puts the entry back in the queue while it has retries left.
HandlerRaises_Retries(exc) ==
    /\ pc = "handler"
    /\ handled' = SetOutcome(handled, "raised", Some(exc))
    /\ items' = Put(items, item[1][3].video_url, FailedCopy(in_progress[1], exc, now))
    /\ last_write' = UnlockedWrite("failed")
    /\ priority_queue' =
          IF item[1][3].retry_count < item[1][3].max_retries
          THEN priority_queue \cup
                 {<<item[1][1], item[1][2],
                    [item[1][3] EXCEPT !.retry_count = item[1][3].retry_count + 1]>>}
          ELSE priority_queue
    /\ pc' = "get"
    /\ item' = None
    /\ in_progress' = None
    /\ UNCHANGED <<sequence, rate_limiters, now, service, attempt, wake_at,
                   reports, enqueued, adds_at_start, admissions>>
    /\ UNCHANGED limiter_vars

\* The handler raises exc.
HandlerRaises(exc) ==
    /\ pc = "handler"
    /\ handled' = SetOutcome(handled, "raised", Some(exc))
    /\ IF CaughtByExcept(exc)
       THEN /\ items' = Put(items, item[1][3].video_url, FailedCopy(in_progress[1], exc, now))
            /\ last_write' = UnlockedWrite("failed")
            /\ pc' = "get"
       ELSE /\ items' = items
            /\ last_write' = last_write
            /\ pc' = "raised"
    /\ item' = None
    /\ in_progress' = None
    /\ UNCHANGED <<priority_queue, sequence, rate_limiters, now, service, attempt, wake_at,
                   reports, enqueued, adds_at_start, admissions>>
    /\ UNCHANGED limiter_vars

Next ==
    \/ \E r \in Requests : add_to_queue(r.url, r.priority, r.prefs)
    \/ StartProcessQueue
    \/ GetItem
    \/ GetTimeout
    \/ ApplyRateLimit
    \/ Wake
    \/ \E update \in ProgressUpdates : ProgressCallback(update)
    \/ HandlerReturns
    \/ \E exc \in Exceptions : HandlerRaises(exc)

Spec == Init /\ [][Next]_vars

\* The event loop keeps running: a get that can return or time out does, an
\* acquisition proceeds, a sleep ends, and the handler returns or raises.
SpecFair ==
    /\ Spec
    /\ WF_vars(GetItem)
    /\ WF_vars(GetTimeout)
    /\ WF_vars(ApplyRateLimit)
    /\ WF_vars(Wake)
    /\ WF_vars(HandlerReturns \/ \E exc \in Exceptions : HandlerRaises(exc))

\* ------------------------------------------- a RateLimiter used directly
\* RateLimiter(requests_per_minute, burst) is constructed at time 0 and its
\* acquire() is called by several coroutines of one event loop: a call runs
\* without yielding from its start, and from the end of each sleep, to its
\* return or its next sleep.  The constructor takes any two integers.
RequestRates == {-60, 0, 60, 90}

Callers == {"a", "b"}

IdleCaller == [pc |-> "idle", attempt |-> 0, wake_at |-> 0, started |-> 0, call |-> 0]

InitRateLimiter ==
    /\ InitQueueService
    /\ rate_limiters = load_rate_limits(EmptyRateLimitConfig)
    /\ \E requests_per_minute \in RequestRates, burst \in (-1)..MaxBurst :
          limiter = Some(RateLimiter(requests_per_minute, burst, 0))
    /\ callers = [c \in Callers |-> IdleCaller]
    /\ calls = 0
    /\ admitted = << >>

\* One pass of acquire's loop by caller c, in its call number n begun at
\* time started, after tries failed passes (counted up to BackoffSaturation).
AcquirePass(c, started, n, tries) ==
    LET try == TryAcquire(limiter[1], now) IN
    /\ limiter' = Some(try.limiter)
    /\ IF try.admitted
       THEN /\ callers' = [callers EXCEPT ![c] = IdleCaller]
            /\ admitted' = Append(admitted, [at |-> now, started |-> started, call |-> n,
                                             sleeps |-> tries])
       ELSE /\ callers' = [callers EXCEPT ![c] =
                              [pc |-> "sleep", attempt |-> Min(tries + 1, BackoffSaturation),
                               wake_at |-> now + SleepTicks(try.limiter, tries),
                               started |-> started, call |-> n]]
            /\ admitted' = admitted

\* An acquire() that does not look at requests_per_minute first.
Acquire_NoDisable(c) ==
    /\ callers[c].pc = "idle"
    /\ calls < MaxCalls
    /\ calls' = calls + 1
    /\ AcquirePass(c, now, calls + 1, 0)
    /\ UNCHANGED <<now, queue_vars>>

\* Caller c calls acquire(): up to its return or its first sleep.
Acquire(c) ==
    /\ callers[c].pc = "idle"
    /\ calls < MaxCalls
    /\ calls' = calls + 1
    /\ IF limiter[1].requests_per_minute <= 0
       THEN /\ admitted' = Append(admitted, [at |-> now, started |-> now, call |-> calls + 1,
                                             sleeps |-> 0])
            /\ UNCHANGED <<limiter, callers>>
       ELSE AcquirePass(c, now, calls + 1, 0)
    /\ UNCHANGED <<now, queue_vars>>

\* Caller c's sleep has ended: the next pass of the loop.
AcquireRetry(c) ==
    /\ callers[c].pc = "sleep"
    /\ now >= callers[c].wake_at
    /\ AcquirePass(c, callers[c].started, callers[c].call, callers[c].attempt)
    /\ UNCHANGED <<calls, now, queue_vars>>

ClockTick ==
    /\ now < MaxClock
    /\ now' = now + 1
    /\ UNCHANGED <<queue_vars, limiter_vars>>

NextRateLimiter ==
    \/ \E c \in Callers : Acquire(c)
    \/ \E c \in Callers : AcquireRetry(c)
    \/ ClockTick

SpecRateLimiter == InitRateLimiter /\ [][NextRateLimiter]_vars

\* ------------------------------- a RateLimiter used directly, for ever
\* The same limiter and callers with time that never stops.  The code reads
\* the clock only as now - last_refill and as the end of a sleep, so the
\* clock is kept at 0 and a tick moves last_refill and every wake_at one
\* tick into the past instead; last_refill stops moving once a refill would
\* fill the bucket, and wake_at once the sleep is over.
TimePasses ==
    /\ LET l == limiter[1] IN
        limiter' = IF RefillRate(l) <= 0 \/ Refill(l, now).tokens >= l.burst * TicksPerMinute
                   THEN limiter
                   ELSE Some([l EXCEPT !.last_refill = l.last_refill - 1])
    /\ callers' = [c \in Callers |->
                      [callers[c] EXCEPT !.wake_at = Max(callers[c].wake_at - 1, now)]]
    /\ UNCHANGED <<calls, admitted, now, queue_vars>>

NextRateLimiterFair ==
    \/ \E c \in Callers : Acquire(c)
    \/ \E c \in Callers : AcquireRetry(c)
    \/ TimePasses

\* Time passes, and a coroutine whose sleep is over is resumed.
SpecRateLimiterFair ==
    /\ InitRateLimiter
    /\ [][NextRateLimiterFair]_vars
    /\ WF_vars(TimePasses)
    /\ \A c \in Callers : WF_vars(AcquireRetry(c))

\* ================================================================ claims
\* The map key of the item process_queue is handling.
CurKey == item[1][3].video_url

\* The last step was the handler raising / returning.
RaiseStep ==
    /\ pc = "handler"
    /\ handled' # handled
    /\ handled'[Len(handled')].outcome = "raised"

ReturnStep ==
    /\ pc = "handler"
    /\ handled' # handled
    /\ handled'[Len(handled')].outcome = "returned"

ReportStep == reports' = reports + 1

NoAddSinceStart == adds_at_start = Some(sequence)

HandledInOrder ==
    \A i, j \in 1..Len(handled) :
        i < j => \/ handled[i].priority > handled[j].priority
                 \/ /\ handled[i].priority = handled[j].priority
                    /\ handled[i].sequence < handled[j].sequence

EnqueuedPriorities == [i \in 1..Len(enqueued) |-> enqueued[i].priority]
HandledSequences == [i \in 1..Len(handled) |-> handled[i].sequence]

\* C1: when every add_to_queue call completed before process_queue started,
\* the handler is invoked on the entries in non-increasing priority order,
\* and in enqueue order among equal priorities; entries enqueued with
\* priorities 1, 5, 5 are handled as item 2, item 3, item 1.
C1_PriorityThenFifo ==
    NoAddSinceStart =>
        /\ HandledInOrder
        /\ (EnqueuedPriorities = <<1, 5, 5>> /\ Len(handled) = 3)
               => HandledSequences = <<2, 3, 1>>

C1_Witness ==
    /\ NoAddSinceStart
    /\ pc = "done"
    /\ EnqueuedPriorities = <<1, 5, 5>>
    /\ HandledSequences = <<2, 3, 1>>

\* C2: at most one entry of the identifier -> item map has status PROCESSING.
C2_AtMostOneProcessing ==
    Cardinality({k \in DOMAIN items : items[k].status = PROCESSING}) <= 1

\* A second item is PROCESSING while the entry of an earlier one is terminal.
C2_Witness ==
    \E k1, k2 \in DOMAIN items :
        /\ items[k1].status = PROCESSING
        /\ items[k2].status \in {COMPLETED, FAILED}
        /\ pc = "handler"

StatusMoveAllowed(a, b) ==
    \/ a = b
    \/ a = QUEUED /\ b = PROCESSING
    \/ a = PROCESSING /\ b \in {COMPLETED, FAILED}

\* The number of add_to_queue calls so far whose validated URL is that of key k.
TimesEnqueued(k, history) ==
    Cardinality({i \in 1..Len(history) : HttpUrl(history[i].url) = HttpUrl(k)})

C4_FailureRecorded ==
    [][RaiseStep =>
          LET exc == handled'[Len(handled')].exc[1]
              others == {k \in DOMAIN items \ {CurKey} : items[k].status = FAILED}
          IN /\ pc' = "get"
             /\ CurKey \in DOMAIN items'
             /\ items'[CurKey].status = FAILED
             /\ items'[CurKey].completed_at = Some(now)
             /\ items'[CurKey].current_stage = Some(STAGE_FAILED)
             /\ items'[CurKey].error_message = Some(exc.text)
             /\ items'[CurKey].error_type = Some(exc.class)
             /\ get_queue_status(items').failed = Cardinality(others) + 1]_vars

\* The handler has just raised and the loop is at its next get.
C4_Witness ==
    /\ pc = "get"
    /\ handled # << >>
    /\ handled[Len(handled)].outcome = "raised"
    /\ get_queue_status(items).failed = 1

\* C5: a failure is isolated: the step in which the handler raises leaves
\* the loop, the queue, the limiters and every other map entry exactly as
\* the step in which it returns does, and a handler that returns after an
\* earlier failure still completes its item.
C5_FailureIsolated ==
    [][/\ RaiseStep =>
             /\ pc' = "get" /\ item' = None /\ in_progress' = None
             /\ UNCHANGED <<priority_queue, sequence, rate_limiters, now, service,
                            attempt, wake_at>>
             /\ \A k \in DOMAIN items \ {CurKey} : k \in DOMAIN items' /\ items'[k] = items[k]
       /\ ReturnStep =>
             /\ pc' = "get"
             /\ items'[CurKey].status = COMPLETED]_vars

\* After a failure, a later entry was handled and completed, and the loop
\* ended with everything handled.
C5_Witness ==
    /\ pc = "done"
    /\ Len(handled) = 3
    /\ handled[1].outcome = "raised"
    /\ handled[2].outcome = "returned"
    /\ handled[3].outcome = "raised"

\* C6: after each progress report the stored overall_progress_percent is the
\* maximum of the value stored before and the value reported, so it never
\* decreases across reports.
C6_OverallIsMax ==
    [][ReportStep =>
          \E update \in ProgressUpdates :
              /\ items'[CurKey].current_stage = Some(update.stage)
              /\ items'[CurKey].message = Some(update.message)
              /\ items'[CurKey].overall_progress_percent =
                     IF items[CurKey].overall_progress_percent >= update.overall_progress
                     THEN items[CurKey].overall_progress_percent
                     ELSE update.overall_progress
              /\ items'[CurKey].overall_progress_percent >=
                     items[CurKey].overall_progress_percent]_vars

\* A later report of 10 percent left the stored 80 percent in place.
C6_Witness ==
    \E k \in DOMAIN items :
        /\ items[k].status = PROCESSING
        /\ items[k].current_stage = Some(DOWNLOADING)
        /\ items[k].overall_progress_percent = 80

\* C7: the overall_progress_percent stored for an item never decreases over
\* its lifetime: not at the PROCESSING transition, not at a progress report,
\* not at the terminal transition to COMPLETED or FAILED.
C7_OverallNeverDecreases ==
    [][/\ (item = None /\ item' # None) =>
             items'[item'[1][3].video_url].overall_progress_percent >=
                 item'[1][3].overall_progress_percent
       /\ (item # None /\ sequence' = sequence /\ CurKey \in DOMAIN items) =>
             items'[CurKey].overall_progress_percent >=
                 items[CurKey].overall_progress_percent]_vars

\* C8: the counts of get_queue_status add up to its total, which is the
\* number of distinct targets passed to add_to_queue so far.
C8_CountsSumToIdentifiers ==
    LET st == get_queue_status(items) IN
    /\ st.total = st.queued + st.processing + st.completed + st.failed
    /\ st.total = Cardinality({enqueued[i].url : i \in 1..Len(enqueued)})

\* C9: for requests_per_minute = N > 0 and burst = B, the acquire() calls
\* that return within any interval of T seconds number at most B + T*N/60,
\* however many callers share the limiter (intervals that start and end at
\* an admission are the tightest; times are in ticks, tokens in units).
C9_AdmissionsBounded ==
    limiter[1].requests_per_minute > 0 =>
        \A i, j \in 1..Len(admitted) :
            i <= j =>
                (j - i + 1) * TicksPerMinute <=
                    limiter[1].burst * TicksPerMinute
                    + (admitted[j].at - admitted[i].at) * limiter[1].requests_per_minute

\* Two callers have used up burst 1 and every token refilled since.
C9_Witness ==
    /\ limiter[1].requests_per_minute = 60
    /\ limiter[1].burst = 1
    /\ Len(admitted) = 3
    /\ admitted[3].at - admitted[1].at = 4
    /\ \E i, j \in 1..3 : admitted[i].call # admitted[j].call /\ admitted[i].started = admitted[j].started

\* C10: a new limiter with N > 0 starts with a full bucket: each of the
\* first B calls of acquire() returns without sleeping, and call B+1, made
\* with no time elapsed, sleeps at least once before it returns.
C10_FullBucketAtStart ==
    limiter[1].requests_per_minute > 0 =>
        /\ \A c \in Callers :
              callers[c].pc = "sleep" => callers[c].call > limiter[1].burst
        /\ \A i \in 1..Len(admitted) :
              /\ admitted[i].call <= limiter[1].burst => admitted[i].sleeps = 0
              /\ (admitted[i].call = limiter[1].burst + 1 /\ admitted[i].started = 0)
                    => admitted[i].sleeps >= 1

\* With burst 2, calls 1 and 2 returned at once and call 3, made at time 0,
\* returned after sleeping.
C10_Witness ==
    /\ limiter[1].requests_per_minute > 0
    /\ limiter[1].burst = 2
    /\ Len(admitted) = 3
    /\ \A i \in 1..3 : admitted[i].started = 0
    /\ \E i \in 1..3 : admitted[i].call = 3 /\ admitted[i].sleeps >= 1
    /\ \E i \in 1..3 : admitted[i].call = 2 /\ admitted[i].sleeps = 0

\* C11: a limiter with requests_per_minute <= 0 never delays: every call of
\* acquire() returns in the step that makes it, with no sleep, and leaves
\* the token level and the time of the last refill as they were.
C11_DisabledNeverDelays ==
    [][limiter[1].requests_per_minute <= 0 =>
          /\ limiter' = limiter
          /\ \A c \in Callers : callers'[c].pc = "idle"
          /\ calls' = calls + 1 =>
                /\ Len(admitted') = calls'
                /\ admitted'[calls'].at = now
                /\ admitted'[calls'].sleeps = 0]_vars

\* A disabled limiter with an empty bucket has let three calls through at
\* the time it was made.
C11_Witness ==
    /\ limiter[1].requests_per_minute <= 0
    /\ limiter[1].tokens = 0
    /\ limiter[1].last_refill = 0
    /\ Len(admitted) >= 3
    /\ \A i \in 1..Len(admitted) : admitted[i].at = 0 /\ admitted[i].sleeps = 0

\* C12: with requests_per_minute > 0, whatever the burst, a call of
\* acquire() that has gone to sleep returns in the end.
C12_AcquireReturns ==
    \A c \in Callers :
        (limiter[1].requests_per_minute > 0 /\ callers[c].pc = "sleep")
            ~> (callers[c].pc = "idle")

C14_SecondItemWaits ==
    \A s \in Services :
        rate_limiters[s] # None /\ rate_limiters[s][1].burst = 1 =>
            \A a \in 1..Len(admissions), h \in 1..Len(handled) :
                (/\ admissions[a].service = s
                 /\ \E b \in 1..Len(admissions) :
                        /\ a < b
                        /\ admissions[b].service = s
                        /\ admissions[b].sequence = handled[h].sequence)
                    => (handled[h].at - admissions[a].at)
                           * rate_limiters[s][1].requests_per_minute >= TicksPerMinute

\* The handler of the second item started exactly one second (two ticks)
\* after the limiter admitted the first.
C14_Witness ==
    /\ Len(handled) >= 2
    /\ Len(admissions) >= 2
    /\ admissions[1].service = "youtube_api"
    /\ admissions[2].service = "youtube_api"
    /\ admissions[1].sequence = handled[1].sequence
    /\ admissions[2].sequence = handled[2].sequence
    /\ handled[2].at - admissions[1].at = 2

\* C15: once called, process_queue returns in the end, without raising and
\* with the priority queue empty; the step in which it returns invokes no
\* handler and leaves the map alone, so a call on an empty queue that stays
\* empty leaves no trace.
C15_ProcessQueueReturns ==
    /\ (pc # "idle") ~> (pc = "done")
    /\ [](pc # "raised")
    /\ [](pc = "done" => priority_queue = {} /\ item = None)
    /\ [](pc = "done" /\ sequence = 0 => handled = << >> /\ items = << >>)
    /\ [][pc' = "done" => items' = items /\ handled' = handled]_vars

\* process_queue has returned after handling three entries, one of them
\* enqueued while it ran.
C15_Witness ==
    /\ pc = "done"
    /\ priority_queue = {}
    /\ Len(handled) = 3
    /\ adds_at_start # Some(sequence)

QueuedSequences == {e[2] : e \in priority_queue}
CurrentSequence == IF item = None THEN {} ELSE {item[1][2]}

\* C16: every add_to_queue call is followed by exactly one handler
\* invocation for its entry: an entry is in the queue, or with the loop, or
\* was handled once, never two of these and never none; when process_queue
\* has returned every entry was handled; and retry_count is 0 everywhere.
C16_HandledExactlyOnce ==
    /\ \A i, j \in 1..Len(handled) :
          i # j => handled[i].sequence # handled[j].sequence
    /\ QueuedSequences \cup CurrentSequence \cup {s \in 1..sequence : \E i \in 1..Len(handled) : handled[i].sequence = s}
          = 1..sequence
    /\ \A i \in 1..Len(handled) :
          /\ handled[i].sequence \notin QueuedSequences
          /\ handled[i].outcome # "running" => handled[i].sequence \notin CurrentSequence
    /\ QueuedSequences \cap CurrentSequence = {}
    /\ Cardinality(priority_queue) = Cardinality(QueuedSequences)
    /\ pc = "done" => {handled[i].sequence : i \in 1..Len(handled)} = 1..sequence
    /\ \A k \in DOMAIN items : items[k].retry_count = 0
    /\ \A e \in priority_queue : e[3].retry_count = 0
    /\ in_progress # None => in_progress[1].retry_count = 0

\* process_queue was called on an empty queue, three entries were enqueued
\* while it ran, all three were handled and the first one failed.
C16_Witness ==
    /\ pc = "done"
    /\ adds_at_start = Some(0)
    /\ Len(handled) = 3
    /\ handled[1].outcome = "raised"

\* C17: the item in flight is never preempted.  An add_to_queue step leaves
\* the loop and its item where they are; the handler is invoked for an
\* entry only when every earlier invocation has returned or raised; and a
\* pop happens only when no map entry is PROCESSING and takes, of all the
\* entries then in the queue, one of the highest priority and among those
\* the one with the lowest sequence number.
C17_NoPreemption ==
    [][/\ sequence' = sequence + 1 =>
             UNCHANGED <<pc, item, in_progress, service, attempt, wake_at, handled>>
       /\ Len(handled') > Len(handled) =>
             \A i \in 1..Len(handled) : handled[i].outcome \in {"returned", "raised"}
       /\ (item = None /\ item' # None) =>
             /\ item'[1] \in priority_queue
             /\ priority_queue' = priority_queue \ {item'[1]}
             /\ \A e \in priority_queue :
                   \/ -item'[1][1] > -e[1]
                   \/ (item'[1][1] = e[1] /\ item'[1][2] <= e[2])
             /\ \A k \in DOMAIN items : items[k].status # PROCESSING]_vars

\* An entry of priority 5 was enqueued while the entry of priority 1 was in
\* flight, and its handler started after the first one had ended.
C17_Witness ==
    /\ adds_at_start = Some(1)
    /\ Len(handled) >= 2
    /\ handled[1].sequence = 1 /\ handled[1].priority = 1
    /\ handled[1].outcome \in {"returned", "raised"}
    /\ handled[2].sequence = 2 /\ handled[2].priority = 5

\* C18: every write of the identifier -> item map is made while the
\* scheduler's lock is held.
C18_WritesUnderLock ==
    last_write # None => last_write[1].locked

PopStep == item = None /\ item' # None
TerminalStep == item # None /\ item' = None

\* C19: in every map entry started_at is unset exactly when the status is
\* QUEUED and completed_at is set exactly when the status is COMPLETED or
\* FAILED.  A step that gives an entry a new started_at is the PROCESSING
\* transition, which writes the current time, or the terminal transition of
\* the same item, whose copy carries the time the PROCESSING transition
\* wrote; a step that gives an entry a new completed_at is the terminal
\* transition; a progress callback changes neither.
C19_Timestamps ==
    /\ [](\A k \in DOMAIN items :
            /\ items[k].started_at = None <=> items[k].status = QUEUED
            /\ items[k].completed_at # None <=> items[k].status \in {COMPLETED, FAILED})
    /\ [][\A k \in DOMAIN items' :
            LET old_started == IF k \in DOMAIN items THEN items[k].started_at ELSE None
                old_completed == IF k \in DOMAIN items THEN items[k].completed_at ELSE None
            IN
            /\ (items'[k].started_at # None /\ items'[k].started_at # old_started) =>
                  \/ PopStep /\ items'[k].started_at = Some(now)
                  \/ TerminalStep /\ items'[k].started_at = in_progress[1].started_at
            /\ (items'[k].completed_at # None /\ items'[k].completed_at # old_completed) =>
                  TerminalStep /\ k = CurKey /\ items'[k].completed_at = Some(now)
            /\ ReportStep =>
                  /\ k \in DOMAIN items
                  /\ items'[k].started_at = old_started
                  /\ items'[k].completed_at = old_completed]_vars

\* After a progress report, an item that started at time 0 completed at
\* time 2 while another entry is still QUEUED.
C19_Witness ==
    /\ reports > 0
    /\ \E k1, k2 \in DOMAIN items :
          /\ items[k1].status = COMPLETED
          /\ items[k1].started_at = Some(0)
          /\ items[k1].completed_at = Some(2)
          /\ items[k2].status = QUEUED
          /\ items[k2].started_at = None
          /\ items[k2].completed_at = None

\* C20: when the handler returns, the item's map entry becomes COMPLETED
\* with completed_at set, current_stage COMPLETE and both percentages 100,
\* whatever the handler reported.
C20_SuccessRecorded ==
    [][ReturnStep =>
          /\ CurKey \in DOMAIN items'
          /\ items'[CurKey].status = COMPLETED
          /\ items'[CurKey].completed_at = Some(now)
          /\ items'[CurKey].current_stage = Some(COMPLETE)
          /\ items'[CurKey].stage_progress_percent = 100
          /\ items'[CurKey].overall_progress_percent = 100]_vars

\* An item completed at 100 percent although its handler reported nothing.
C20_Witness ==
    /\ reports = 0
    /\ handled # << >>
    /\ handled[Len(handled)].outcome = "returned"
    /\ \E k \in DOMAIN items :
          /\ items[k].status = COMPLETED
          /\ items[k].stage_progress_percent = 100
          /\ items[k].overall_progress_percent = 100

AddStep == Len(enqueued') = Len(enqueued) + 1

Preferences(it) ==
    [manual_tags |-> it.manual_tags, summarize |-> it.summarize,
     summary_length |-> it.summary_length,
     remove_timestamps |-> it.remove_timestamps, force |-> it.force]

\* C21: an add_to_queue call makes an item with status QUEUED, the supplied
\* priority and the supplied preferences, adds exactly one tuple
\* (-priority, sequence, item) to the priority queue, and its sequence
\* number is greater than every one assigned before; no two queue entries
\* share a sequence number.
C21_AddEnqueuesOne ==
    /\ [](\A e, f \in priority_queue : e[2] = f[2] => e = f)
    /\ [][AddStep =>
            \E r \in Requests :
                LET it == items'[r.url] IN
                /\ enqueued'[Len(enqueued')] = [url |-> r.url, priority |-> r.priority]
                /\ it.status = QUEUED
                /\ it.priority = r.priority
                /\ Preferences(it) = r.prefs
                /\ it.queued_at = now
                /\ sequence' > sequence
                /\ \A e \in priority_queue : e[2] < sequence'
                /\ <<-r.priority, sequence', it>> \notin priority_queue
                /\ priority_queue' = priority_queue \cup {<<-r.priority, sequence', it>>}]_vars

\* Three calls, two of them for the same target with other preferences,
\* left three queue entries numbered 1, 2 and 3.
C21_Witness ==
    /\ Cardinality(priority_queue) = 3
    /\ {e[2] : e \in priority_queue} = {1, 2, 3}
    /\ \E e, f \in priority_queue :
          /\ e[2] < f[2]
          /\ e[3].video_url = f[3].video_url
          /\ Preferences(e[3]) = DefaultPrefs
          /\ Preferences(f[3]) = OtherPrefs

\* C22 as stated: the stored stage_progress_percent never decreases from one
\* progress report to the next.
C22_StageNeverDecreases ==
    [][ReportStep =>
          items'[CurKey].stage_progress_percent >= items[CurKey].stage_progress_percent]_vars

\* C22: after each progress report the stored stage_progress_percent is the
\* reported stage_progress, lower than the stored one or not; only
\* overall_progress_percent is kept from decreasing.
C22_StageIsLastReported ==
    [][ReportStep =>
          \E update \in ProgressUpdates :
              /\ items'[CurKey].current_stage = Some(update.stage)
              /\ items'[CurKey].stage_progress_percent = update.stage_progress
              /\ items'[CurKey].overall_progress_percent >=
                     items[CurKey].overall_progress_percent]_vars

\* A report of stage progress 10 has replaced a stored 100.
C22_Witness ==
    /\ reports = 2
    /\ \E k \in DOMAIN items :
          /\ items[k].status = PROCESSING
          /\ items[k].stage_progress_percent = 10
          /\ items[k].overall_progress_percent = 80

\* C23: a map entry has error_message or error_type set only if its status
\* is FAILED.
C23_ErrorsOnlyOnFailed ==
    \A k \in DOMAIN items :
        (items[k].error_message # None \/ items[k].error_type # None)
            => items[k].status = FAILED

\* A FAILED entry with both error fields set next to a COMPLETED entry
\* with neither.
C23_Witness ==
    \E k1, k2 \in DOMAIN items :
        /\ items[k1].status = FAILED
        /\ items[k1].error_message = Some("bad video")
        /\ items[k1].error_type = Some("ValueError")
        /\ items[k2].status = COMPLETED
        /\ items[k2].error_message = None
        /\ items[k2].error_type = None

HandlerStartStep == Len(handled') > Len(handled)

\* C24: for a popped item the PROCESSING transition (status PROCESSING,
\* current_stage VALIDATING, stage_progress_percent 0) is recorded in the
\* pop step, before any acquisition; the first acquisition is the one of
\* youtube_api; the one of openai_api follows the return of the first and
\* happens exactly for the items that summarize; and the handler is invoked
\* in the step in which the last of these returns.
C24_StepsInOrder ==
    /\ [](pc \in {"limit", "sleep"} =>
            /\ service \in {1, 2}
            /\ service = 2 => in_progress[1].summarize
            /\ ServicesToThrottle(in_progress[1])[service] =
                  (IF service = 1 THEN "youtube_api" ELSE "openai_api"))
    /\ [][/\ PopStep =>
                /\ items'[item'[1][3].video_url].status = PROCESSING
                /\ items'[item'[1][3].video_url].current_stage = Some(VALIDATING)
                /\ items'[item'[1][3].video_url].stage_progress_percent = 0
                /\ pc' = "limit" /\ service' = 1
                /\ handled' = handled /\ admissions' = admissions
          /\ (service' = 2 /\ service # 2) => pc = "limit" /\ service = 1
          /\ HandlerStartStep =>
                /\ pc = "limit"
                /\ service = (IF in_progress[1].summarize THEN 2 ELSE 1)
                /\ handled'[Len(handled')].sequence = item[1][2]]_vars

\* The handler of an item that does not summarize is running: youtube_api
\* was acquired for it and openai_api was not asked.
C24_Witness ==
    /\ pc = "handler"
    /\ ~in_progress[1].summarize
    /\ \E a \in 1..Len(admissions) :
          admissions[a].service = "youtube_api" /\ admissions[a].sequence = item[1][2]

\* C25: apply_rate_limit for a service with no configured limiter returns
\* in the same step, without sleeping, without moving the clock and
\* without changing any limiter; with no service configured an item goes
\* from its pop to its handler with the clock where it was.
C25_UnconfiguredNoDelay ==
    /\ [][(pc = "limit" /\ rate_limiters[ServicesToThrottle(in_progress[1])[service]] = None) =>
             /\ pc' # "sleep"
             /\ UNCHANGED <<rate_limiters, now, wake_at, attempt, admissions>>
             /\ \/ pc' = "handler"
                \/ pc' = "limit" /\ service' = service + 1]_vars
    /\ []((\A s \in Services : rate_limiters[s] = None) =>
             /\ now = 0
             /\ pc # "sleep"
             /\ admissions = << >>
             /\ \A i \in 1..Len(handled) : handled[i].at = 0)

\* With no service configured, three items were handled at time 0.
C25_Witness ==
    /\ \A s \in Services : rate_limiters[s] = None
    /\ pc = "done"
    /\ Len(handled) = 3
    /\ handled[3].at = 0

\* C26: a progress callback changes current_stage, stage_progress_percent,
\* overall_progress_percent and message of the entry under its own
\* identifier and nothing else: no other field of that entry, no other
\* entry, and no key of the map.
C26_CallbackFrame ==
    [][ReportStep =>
          /\ DOMAIN items' = DOMAIN items
          /\ \A k \in DOMAIN items \ {CurKey} : items'[k] = items[k]
          /\ CurKey \in DOMAIN items =>
                [items'[CurKey] EXCEPT
                    !.current_stage = items[CurKey].current_stage,
                    !.stage_progress_percent = items[CurKey].stage_progress_percent,
                    !.overall_progress_percent = items[CurKey].overall_progress_percent,
                    !.message = items[CurKey].message] = items[CurKey]
          /\ UNCHANGED <<priority_queue, sequence, rate_limiters, pc, item, in_progress>>]_vars

\* A report was delivered for an item whose target had been enqueued again
\* in the meantime: the entry is still QUEUED and now carries the report.
C26_Witness ==
    /\ pc = "handler"
    /\ reports > 0
    /\ Cardinality(DOMAIN items) >= 2
    /\ items[CurKey].status = QUEUED
    /\ items[CurKey].message # None

\* C27: the terminal transition keeps the progress note: the message the
\* item's entry carries from its last progress report is still its message
\* once the entry is COMPLETED or FAILED.
C27_TerminalKeepsMessage ==
    [][(TerminalStep /\ CurKey \in DOMAIN items /\ items[CurKey].message # None) =>
          items'[CurKey].message = items[CurKey].message]_vars

\* C28: the map entry of a target carries the priority and the preferences
\* of the most recent add_to_queue call for that target.
C28_LatestEnqueueWins ==
    \A i \in 1..Len(enqueued) :
        (\A j \in (i + 1)..Len(enqueued) : enqueued[j].url # enqueued[i].url) =>
            /\ items[enqueued[i].url].priority = enqueued[i].priority
            /\ \E r \in Requests :
                  /\ r.url = enqueued[i].url
                  /\ r.priority = enqueued[i].priority
                  /\ Preferences(items[enqueued[i].url]) = r.prefs

\* C29: when every add_to_queue call completed before process_queue started
\* and process_queue has returned, every map entry is COMPLETED or FAILED
\* and get_queue_status counts nothing as queued or processing.
C29_AllTerminalAfterDrain ==
    (pc = "done" /\ NoAddSinceStart) =>
        /\ \A k \in DOMAIN items : items[k].status \in {COMPLETED, FAILED}
        /\ get_queue_status(items).queued = 0
        /\ get_queue_status(items).processing = 0

\* C30: a QUEUED map entry has no current_stage and both percentages 0, and
\* a COMPLETED map entry has current_stage COMPLETE and both percentages 100.
C30_StageMatchesStatus ==
    \A k \in DOMAIN items :
        /\ items[k].status = QUEUED =>
              /\ items[k].current_stage = None
              /\ items[k].stage_progress_percent = 0
              /\ items[k].overall_progress_percent = 0
        /\ items[k].status = COMPLETED =>
              /\ items[k].current_stage = Some(COMPLETE)
              /\ items[k].stage_progress_percent = 100
              /\ items[k].overall_progress_percent = 100

====
